---- MODULE Spec2Model ----
(***************************************************************************)
(* Finance & news multi-agent team: query classification, fact checking,   *)
(* routing and response presentation.                                      *)
(*                                                                         *)
(*   src/main.py                                    QueryClassifier,       *)
(*                                                  FactChecker,           *)
(*                                                  QueryRouter, CLI loop  *)
(*   src/multi_agent_team_market_finance_news.py    safe_parse_json,       *)
(*                                                  present_response,      *)
(*                                                  ValidationRouter, CLI  *)
(*   src/milti_agent_team_market_finance_news.py    ValidationRouter, CLI  *)
(*                                                                         *)
(* A Python str is a sequence of one-character strings, so that lower(),   *)
(* strip(), split(), join() and the `in` substring test are computed on    *)
(* the characters.  The agents, the team and json.loads are external       *)
(* libraries: a call to one of them returns a value drawn from a bounded   *)
(* set of the shapes it can return, or raises.                             *)
(***************************************************************************)
EXTENDS Integers, Sequences, FiniteSets, TLC

VARIABLES
    pc,                 \* position of the running program
    query,              \* the line read by input() / the argument of route, classify, check
    category,           \* QueryClassifier.classify's return value
    search_results,     \* what web_agent.run returned inside FactChecker.check
    check_result,       \* FactChecker.check's return value
    validation_result,  \* what validator.run returned inside ValidationRouter.route
    team_response,      \* what team.run returned
    calls,              \* the calls made so far by the current turn, in order
    response,           \* the outcome of the current route / present_response call
    printed,            \* what the current turn of the CLI loop has printed
    variant,            \* which program is running
    turn,               \* the line the CLI loop is at: none yet, its first, a later one
    session             \* the start-up of the CLI: its inputs, then the session id

vars == <<pc, query, category, search_results, check_result, validation_result,
          team_response, calls, response, printed, variant, turn, session>>

(***************************************************************************)
(* Bounds of the model.                                                    *)
(***************************************************************************)
\* Number of words a classified query is built from.
MaxQueryWords == 3
\* Number of fragments a research output is built from.
MaxOutputWords == 3
\* Number of characters of a team response text given to present_response.
MaxTextLen == 6
\* Number of words of a line typed at a CLI prompt.
MaxLineWords == 1
\* Number of fragments of a research output within a CLI session.
MaxReplyWords == 1

(***************************************************************************)
(* Python str operations.                                                  *)
(***************************************************************************)
UpperCase == <<"A","B","C","D","E","F","G","H","I","J","K","L","M",
               "N","O","P","Q","R","S","T","U","V","W","X","Y","Z">>
LowerCase == <<"a","b","c","d","e","f","g","h","i","j","k","l","m",
               "n","o","p","q","r","s","t","u","v","w","x","y","z">>

\* str.lower() on one (ASCII) character.
LowerChar(c) ==
    IF \E i \in 1..26 : UpperCase[i] = c
    THEN LowerCase[CHOOSE i \in 1..26 : UpperCase[i] = c]
    ELSE c

\* str.lower()
lower(s) == [i \in 1..Len(s) |-> LowerChar(s[i])]

\* `k in s` for two str
Contains(s, k) ==
    \E i \in 0..(Len(s) - Len(k)) : SubSeq(s, i + 1, i + Len(k)) = k

\* any(k in s for k in keywords)
ContainsAny(s, keywords) == \E k \in keywords : Contains(s, k)

RECURSIVE Texts(_, _)
\* The strings made of at most n words of the set W, concatenated.
Texts(W, n) ==
    IF n = 0 THEN {<<>>}
    ELSE LET shorter == Texts(W, n - 1)
         IN  shorter \cup {t \o w : t \in shorter, w \in W}

(***************************************************************************)
(* QueryClassifier (src/main.py)                                           *)
(***************************************************************************)
GeoKeywords ==
    { <<"t","r","u","m","p">>, <<"b","i","d","e","n">>, <<"w","a","r">>,
      <<"a","t","t","a","c","k">>, <<"v","e","n","e","z","u","e","l","a">>,
      <<"e","l","e","c","t","i","o","n">>, <<"s","a","n","c","t","i","o","n">>,
      <<"g","e","o","p","o","l","i","t","i","c","s">>,
      <<"c","o","n","f","l","i","c","t">> }

TickerKeywords ==
    { <<"a","m","z","n">>, <<"m","s","f","t">>, <<"g","o","o","g","l">>,
      <<"m","e","t","a">>, <<"s","n","a","p">>, <<"t","t","w","o">>,
      <<"e","a">>, <<"a","t","v","i">>, <<"n","v","d","a">>,
      <<"a","m","d">>, <<"j","p","m">>, <<"b","a","c">> }

Categories == {"fact_check", "finance_only", "mixed"}

\* A variant of classify that tests the ticker rule before the geopolitical one.
classify_ticker_first(q0) ==
    LET q == lower(q0)
    IN  IF ContainsAny(q, TickerKeywords) THEN "finance_only"
        ELSE IF ContainsAny(q, GeoKeywords) THEN "fact_check"
        ELSE "mixed"

\* A variant of classify that forgets to lower-case the query.
classify_case_sensitive(q0) ==
    IF ContainsAny(q0, GeoKeywords) THEN "fact_check"
    ELSE IF ContainsAny(q0, TickerKeywords) THEN "finance_only"
    ELSE "mixed"

\* A variant of classify whose default is finance_only.
classify_default_finance(q0) ==
    LET q == lower(q0)
    IN  IF ContainsAny(q, GeoKeywords) THEN "fact_check"
        ELSE "finance_only"

classify(q0) ==
    LET q == lower(q0)
    IN  IF ContainsAny(q, GeoKeywords) THEN "fact_check"
        ELSE IF ContainsAny(q, TickerKeywords) THEN "finance_only"
        ELSE "mixed"

\* Words the classified queries are built from: keywords in several casings,
\* pieces that form a keyword only across a word boundary, and neutral words.
QueryWords ==
    { <<"T","r","u","m","p">>, <<"W","A","R">>, <<"w">>, <<"a","r">>,
      <<"N","V","D","A">>, <<"e","a">>, <<"E">>, <<"a">>, <<" ">>,
      <<"f","e","d">> }

Queries == Texts(QueryWords, MaxQueryWords)

NoValue == [kind |-> "none"]

(***************************************************************************)
(* FactChecker (src/main.py)                                               *)
(***************************************************************************)
NoResults  == <<"n","o"," ","r","e","s","u","l","t","s">>
Uncertain  == <<"u","n","c","e","r","t","a","i","n">>
Rumor      == <<"r","u","m","o","r">>
Unverified == <<"u","n","v","e","r","i","f","i","e","d">>

\* Fragments the research outputs are built from.
OutputWords ==
    { NoResults, <<"N","o"," ","R","e","s","u","l","t","s">>, Rumor,
      <<"U","n","c","e","r","t","a","i","n">>, Unverified,
      <<"n","o">>, <<" ">>, <<"r","e","s","u","l","t","s">>,
      <<"u","n">>, <<"o","k">> }

\* What web_agent.run can return: a truthy value (a run response, a non-empty
\* str) with its str() text, or a falsy one (the empty str, None).
Truthy(t) == [kind |-> "value", truthy |-> TRUE, str |-> t]
Falsy(t)  == [kind |-> "value", truthy |-> FALSE, str |-> t]
FalsyOutputs == { Falsy(<<>>), Falsy(<<"N","o","n","e">>) }
ResearchOutputs(n) ==
    { Truthy(t) : t \in Texts(OutputWords, n) \ {<<>>} } \cup FalsyOutputs

\* A variant of check that does not test the falsy output.
check_ignore_falsy(out) ==
    LET text == lower(out.str)
    IN  IF Contains(text, NoResults)
        THEN [kind |-> "value", status |-> "false",
              reason |-> "No evidence found in recent reports."]
        ELSE IF Contains(text, Uncertain) \/ Contains(text, Rumor)
                   \/ Contains(text, Unverified)
        THEN [kind |-> "value", status |-> "uncertain",
              reason |-> "Conflicting or insufficient evidence."]
        ELSE [kind |-> "value", status |-> "verified",
              reason |-> "Evidence found in multiple sources."]

\* A variant of check that tests the uncertain words before "no results".
check_uncertain_first(out) ==
    LET text == lower(out.str)
    IN  IF Contains(text, Uncertain) \/ Contains(text, Rumor)
             \/ Contains(text, Unverified)
        THEN [kind |-> "value", status |-> "uncertain",
              reason |-> "Conflicting or insufficient evidence."]
        ELSE IF ~out.truthy \/ Contains(text, NoResults)
        THEN [kind |-> "value", status |-> "false",
              reason |-> "No evidence found in recent reports."]
        ELSE [kind |-> "value", status |-> "verified",
              reason |-> "Evidence found in multiple sources."]

\* FactChecker.check, after web_agent.run has returned out.
check(out) ==
    LET text == lower(out.str)
    IN  IF ~out.truthy \/ Contains(text, NoResults)
        THEN [kind |-> "value", status |-> "false",
              reason |-> "No evidence found in recent reports."]
        ELSE IF Contains(text, Uncertain) \/ Contains(text, Rumor)
                   \/ Contains(text, Unverified)
        THEN [kind |-> "value", status |-> "uncertain",
              reason |-> "Conflicting or insufficient evidence."]
        ELSE [kind |-> "value", status |-> "verified",
              reason |-> "Evidence found in multiple sources."]

Raised(e) == [kind |-> "raised", error |-> e]

\* Everything but pc, query and category, in the state of a program that has
\* read or called nothing yet.
Untouched ==
    /\ search_results = NoValue
    /\ check_result = NoValue
    /\ validation_result = NoValue
    /\ team_response = NoValue
    /\ calls = <<>>
    /\ response = NoValue
    /\ printed = <<>>
    /\ turn = "none"

(***************************************************************************)
(* Python values handed around by the team runtime.                        *)
(***************************************************************************)
PyStr(t) == [type |-> "str", str |-> t]
PyNone == [type |-> "NoneType"]

\* bool(v) for a str or None
IsTruthy(v) == v.type = "str" /\ v.str # <<>>

\* What team.run can return: an object with a content attribute, a dict with
\* or without a "content" key, a plain str, or any other object.  content is
\* the attribute or the key's value, str is the text of str(response).
AttrResponse(c, r) ==
    [kind |-> "value", shape |-> "attr", has_content |-> TRUE, content |-> c, str |-> r]
DictResponse(c, r) ==
    [kind |-> "value", shape |-> "dict", has_content |-> TRUE, content |-> c, str |-> r]
DictNoContent(r) ==
    [kind |-> "value", shape |-> "dict", has_content |-> FALSE, content |-> PyNone, str |-> r]
StrResponse(t) ==
    [kind |-> "value", shape |-> "str", has_content |-> FALSE, content |-> PyNone, str |-> t]
OtherResponse(r) ==
    [kind |-> "value", shape |-> "other", has_content |-> FALSE, content |-> PyNone, str |-> r]

Returned(v) == [kind |-> "returned", value |-> v]

(***************************************************************************)
(* present_response (src/multi_agent_team_market_finance_news.py)          *)
(***************************************************************************)
\* The characters str.strip() removes.
Whitespace == {" ", "\n", "\t", "\r", "\f"}

BlankLine == <<"\n", "\n">>

RECURSIVE lstrip(_)
lstrip(s) ==
    IF s # <<>> /\ Head(s) \in Whitespace THEN lstrip(Tail(s)) ELSE s

RECURSIVE rstrip(_)
rstrip(s) ==
    IF s # <<>> /\ s[Len(s)] \in Whitespace
    THEN rstrip(SubSeq(s, 1, Len(s) - 1))
    ELSE s

\* str.strip()
strip(s) == rstrip(lstrip(s))

RECURSIVE split(_, _)
\* s.split(sep): cut at the leftmost occurrences of sep, left to right.
split(s, sep) ==
    IF Contains(s, sep)
    THEN LET i == CHOOSE j \in 1..Len(s) :
                    /\ SubSeq(s, j, j + Len(sep) - 1) = sep
                    /\ \A k \in 1..(j - 1) : SubSeq(s, k, k + Len(sep) - 1) # sep
         IN  <<SubSeq(s, 1, i - 1)>> \o split(SubSeq(s, i + Len(sep), Len(s)), sep)
    ELSE <<s>>

RECURSIVE join(_, _)
\* sep.join(parts)
join(parts, sep) ==
    IF parts = <<>> THEN <<>>
    ELSE IF Len(parts) = 1 THEN parts[1]
    ELSE parts[1] \o sep \o join(Tail(parts), sep)

RECURSIVE dedupe_from(_, _, _)
\* The loop of present_response over the parts left, with seen and cleaned.
dedupe_from(parts, seen, cleaned) ==
    IF parts = <<>> THEN cleaned
    ELSE IF Head(parts) \notin seen
         THEN dedupe_from(Tail(parts), seen \cup {Head(parts)},
                          Append(cleaned, Head(parts)))
         ELSE dedupe_from(Tail(parts), seen, cleaned)

RECURSIVE dedupe_no_add(_, _, _)
\* A variant of the loop that never adds to seen.
dedupe_no_add(parts, seen, cleaned) ==
    IF parts = <<>> THEN cleaned
    ELSE IF Head(parts) \notin seen
         THEN dedupe_no_add(Tail(parts), seen, Append(cleaned, Head(parts)))
         ELSE dedupe_no_add(Tail(parts), seen, cleaned)

\* A variant of present_text that never adds a segment to seen.
present_text_no_add(text0) ==
    LET text  == strip(text0)
        parts == split(text, BlankLine)
    IN  join(dedupe_no_add(parts, {}, <<>>), BlankLine)

\* present_response from `text = text.strip()` on.
present_text(text0) ==
    LET text  == strip(text0)
        parts == split(text, BlankLine)
    IN  join(dedupe_from(parts, {}, <<>>), BlankLine)

\* The first statement of present_response:
\* getattr(r, "content", None) or (r.get("content") if dict else str(r))
extract_text(r) ==
    IF r.shape = "attr" /\ IsTruthy(r.content) THEN r.content
    ELSE IF r.shape = "dict"
         THEN (IF r.has_content THEN r.content ELSE PyNone)
         ELSE PyStr(r.str)

\* present_response(team_response): None has no strip().
present_response(r) ==
    LET text == extract_text(r)
    IN  IF text.type = "str" THEN Returned(PyStr(present_text(text.str)))
        ELSE Raised("AttributeError")

\* The texts of at most n characters of the alphabet A.
Strings(A, n) == UNION { [1..k -> A] : k \in 0..n }

\* Characters of the texts given to present_response.
TextChars == {"a", "b", " ", "\n"}

InitPresent ==
    /\ variant = "present"
    /\ pc = "call"
    /\ query = <<>>
    /\ category = "none"
    /\ search_results = NoValue
    /\ check_result = NoValue
    /\ validation_result = NoValue
    /\ team_response \in { StrResponse(t) : t \in Strings(TextChars, MaxTextLen) }
    /\ calls = <<>>
    /\ response = NoValue
    /\ printed = <<>>
    /\ turn = "none"
    /\ session = NoValue

\* present_response(team_response)
Present ==
    /\ variant = "present"
    /\ pc = "call"
    /\ response' = present_response(team_response)
    /\ pc' = "presented"
    /\ UNCHANGED <<query, category, search_results, check_result,
                   validation_result, team_response, calls, printed, variant, turn, session>>

\* present_response applied to the text it has just returned.
PresentAgain ==
    /\ variant = "present"
    /\ pc = "presented"
    /\ response.kind = "returned"
    /\ team_response' = StrResponse(response.value.str)
    /\ response' = present_response(team_response')
    /\ pc' = "presented_again"
    /\ UNCHANGED <<query, category, search_results, check_result,
                   validation_result, calls, printed, variant, turn, session>>

NextPresent == Present \/ PresentAgain

SpecPresent == InitPresent /\ [][NextPresent]_vars

\* C8: present_response is idempotent: applied to a text it has returned, it
\* returns that text unchanged.
C8_Idempotent ==
    pc = "presented_again" =>
        /\ response.kind = "returned"
        /\ response.value.str = team_response.str

NoDuplicates(seq) ==
    \A i, j \in 1..Len(seq) : seq[i] = seq[j] => i = j

FirstIndex(seq, x) == CHOOSE i \in 1..Len(seq) :
    seq[i] = x /\ \A k \in 1..(i - 1) : seq[k] # x

\* C9: the segments of present_response's output are the distinct
\* blank-line-separated segments of the stripped input, each exactly once, in
\* the order of their first occurrence.
C9_DistinctSegmentsOnce ==
    pc = "presented" =>
        /\ response.kind = "returned"
        /\ LET parts == split(strip(team_response.str), BlankLine)
               out   == split(response.value.str, BlankLine)
           IN  /\ NoDuplicates(out)
               /\ \A i \in 1..Len(parts) : \E j \in 1..Len(out) : out[j] = parts[i]
               /\ \A j \in 1..Len(out) : \E i \in 1..Len(parts) : parts[i] = out[j]
               /\ \A i, j \in 1..Len(out) :
                     i < j => FirstIndex(parts, out[i]) < FirstIndex(parts, out[j])

\* A text with a repeated segment and two distinct segments has been presented.
C9_Witness ==
    /\ pc = "presented"
    /\ response.kind = "returned"
    /\ LET parts == split(strip(team_response.str), BlankLine)
           out   == split(response.value.str, BlankLine)
       IN  /\ Len(out) >= 2
           /\ Len(parts) > Len(out)

(***************************************************************************)
(* QueryRouter and the CLI loop of finance_team (src/main.py)              *)
(***************************************************************************)
\* The f-strings of _handle_fact_check, as the pieces they are made of.
FalseMessage(reason) ==
    PyStr(<<"No recent reports confirm this. ", reason,
            " Would you like me to run a hypothetical analysis instead?">>)
UncertainMessage(reason) ==
    PyStr(<<"I couldn't fully verify this. ", reason,
            " Should I proceed hypothetically?">>)

RunAgents == [kind |-> "run_agents"]

\* A variant of _handle_fact_check that goes on to the team when uncertain.
handle_fact_check_lenient(cr) ==
    IF cr.status = "false" THEN Returned(FalseMessage(cr.reason))
    ELSE RunAgents

\* QueryRouter._handle_fact_check: a message to return, or run_agents.
handle_fact_check(cr) ==
    IF cr.status = "false" THEN Returned(FalseMessage(cr.reason))
    ELSE IF cr.status = "uncertain" THEN Returned(UncertainMessage(cr.reason))
    ELSE RunAgents

\* A variant of route that sends every query through the fact check.
after_classify_always_check(cat) == "check"

\* A variant of route that sends every query straight to the team.
after_classify_never_check(cat) == "run_agents"

\* QueryRouter.route, after classify: finance_only goes to run_agents, the
\* other two categories to fact_checker.check.
after_classify(cat) ==
    IF cat = "finance_only" THEN "run_agents" ELSE "check"

\* A variant of route whose mixed branch stops on false only.
after_check_mixed_lenient(cat, cr) ==
    IF cat = "fact_check" THEN handle_fact_check(cr)
    ELSE IF cr.status # "false" THEN RunAgents
    ELSE handle_fact_check(cr)

\* QueryRouter.route, after fact_checker.check has returned cr.
after_check(cat, cr) ==
    IF cat = "fact_check" THEN handle_fact_check(cr)
    ELSE IF cr.status = "verified" THEN RunAgents
    ELSE handle_fact_check(cr)

\* QueryRouter.run_agents, after team.run has returned r.
run_agents(r) ==
    IF r.shape = "attr" THEN r.content
    ELSE IF r.shape = "dict" /\ r.has_content THEN r.content
    ELSE PyStr(r.str)

\* A variant of the loop of finance_team that ends on exit alone.
ExitWordsMain_exit_only == { <<"e","x","i","t">> }

\* The tokens that end the loop of finance_team.
ExitWordsMain == { <<"e","x","i","t">>, <<"q","u","i","t">> }

\* Words the lines typed at a prompt are built from.
LineWords ==
    { <<"e","x","i","t">>, <<"Q","u","i","t">>, <<"B","Y","E">>, <<" ">>,
      <<"T","r","u","m","p">>, <<"N","V","D","A">>, <<"f","e","d">>,
      <<"W","a","r">>, <<"e","a">> }

Lines == Texts(LineWords, MaxLineWords)

\* Texts of the team's replies.
TeamTexts == { <<>>, <<"r">>, <<"r", "\n", "\n", "r">> }

ReprText == <<"<", "r", ">">>

TeamResponses ==
    { AttrResponse(PyStr(t), ReprText) : t \in TeamTexts }
        \cup { AttrResponse(PyNone, ReprText) }
        \cup { DictResponse(PyStr(t), ReprText) : t \in TeamTexts }
        \cup { DictResponse(PyNone, ReprText), DictNoContent(ReprText),
               OtherResponse(ReprText) }
        \cup { StrResponse(t) : t \in TeamTexts }

Call(f, a) == [fn |-> f, arg |-> a]

\* A variant of the router that keeps the last fact check for later turns.
TurnOver_keeps_check ==
    /\ category' = "none"
    /\ search_results' = search_results
    /\ check_result' = check_result
    /\ team_response' = NoValue
    /\ calls' = <<>>
    /\ response' = NoValue

\* Back at input(): the locals of the route call are gone, and response is
\* assigned again before it is read.
TurnOver ==
    /\ category' = "none"
    /\ search_results' = NoValue
    /\ check_result' = NoValue
    /\ team_response' = NoValue
    /\ calls' = <<>>
    /\ response' = NoValue

\* The arguments of the calls of f made so far by the current turn.
ArgsOf(f) == SelectSeq(calls, LAMBDA c : c.fn = f)

(***************************************************************************)
(* Start-up of finance_team and validated_finance_team: the session        *)
(***************************************************************************)
\* Rows of the sessions table of team_storage: a session id, its user, and
\* when it was created.
SessionRows ==
    { [id |-> "s1", user |-> "user",  created |-> 1],
      [id |-> "s2", user |-> "user",  created |-> 2],
      [id |-> "s3", user |-> "other", created |-> 3] }

RECURSIVE newest_first(_)
\* The ids of a set of rows, the most recently created first.
newest_first(rows) ==
    IF rows = {} THEN <<>>
    ELSE LET r == CHOOSE x \in rows : \A y \in rows : y.created <= x.created
         IN  <<r.id>> \o newest_first(rows \ {r})

\* team_storage.get_all_session_ids(user): the storage lists the ids of the
\* user's sessions, the most recently created first.
get_all_session_ids(table, user) ==
    newest_first({ r \in table : r.user = user })

\* A variant of existing_session that takes the last id of the list.
existing_session_last(new, table, user) ==
    IF ~new
    THEN LET existing_sessions == get_all_session_ids(table, user)
         IN  IF Len(existing_sessions) > 0
             THEN existing_sessions[Len(existing_sessions)]
             ELSE "None"
    ELSE "None"

\* The session_id handed to Team(...): None, or existing_sessions[0] when
\* the user does not want a new session and has stored ones.
existing_session(new, table, user) ==
    IF ~new
    THEN LET existing_sessions == get_all_session_ids(table, user)
         IN  IF Len(existing_sessions) > 0 THEN existing_sessions[1] ELSE "None"
    ELSE "None"

\* The session after the team is built: the team runtime allocates a fresh
\* id when it is handed None (session_id = agent_team.session_id).
started(handed) ==
    [stage |-> "started", handed |-> handed,
     session_id |-> IF handed = "None" THEN "fresh" ELSE handed]

\* Before start-up: the user parameter (its default), the answer
\* typer.confirm will get, and the sessions table.
StartupInputs ==
    [stage : {"inputs"}, user : {"user"}, new : BOOLEAN,
     table : SUBSET SessionRows]

\* finance_team / validated_finance_team, up to the loop.
Startup ==
    /\ pc = "startup"
    /\ session' = started(existing_session(session.new, session.table, session.user))
    /\ printed' = <<IF session'.handed = "None" THEN "Started new Session"
                     ELSE "Continuing Session">>
    /\ pc' = "input"
    /\ UNCHANGED <<query, category, search_results, check_result,
                   validation_result, team_response, calls, response, variant,
                   turn>>

\* The loop has read one more line.
CountTurn == turn' = IF turn = "none" THEN "first" ELSE "later"

InitMain ==
    /\ variant = "main"
    /\ pc = "startup"
    /\ query = <<>>
    /\ category = "none"
    /\ Untouched
    /\ session \in StartupInputs

\* finance_team, up to the loop.
MainStartup == variant = "main" /\ Startup

\* query = input(...); exit and quit in any casing leave the loop, every
\* other line is routed.
MainReadLine ==
    /\ variant = "main"
    /\ pc = "input"
    /\ \E line \in Lines :
          /\ query' = line
          /\ IF lower(line) \in ExitWordsMain
             THEN pc' = "exited" /\ printed' = <<"Exiting Finance Team.">>
             ELSE pc' = "route" /\ printed' = <<>>
    /\ TurnOver
    /\ CountTurn
    /\ UNCHANGED <<validation_result, variant, session>>

\* route: category = self.classifier.classify(query)
MainClassify ==
    /\ variant = "main"
    /\ pc = "route"
    /\ category' = classify(query)
    /\ calls' = Append(calls, Call("classify", query))
    /\ pc' = after_classify(category')
    /\ UNCHANGED <<query, search_results, check_result, validation_result,
                   team_response, response, printed, variant, turn, session>>

\* route: check_result = self.fact_checker.check(query) returns, and the
\* branch on its status is taken.
MainCheckReturns ==
    /\ variant = "main"
    /\ pc = "check"
    /\ \E out \in ResearchOutputs(MaxReplyWords) :
          /\ search_results' = out
          /\ check_result' = check(out)
    /\ calls' = Append(calls, Call("check", query))
    /\ LET next == after_check(category, check_result')
       IN  IF next.kind = "returned"
           THEN response' = next /\ pc' = "print"
           ELSE response' = response /\ pc' = "run_agents"
    /\ UNCHANGED <<query, category, validation_result, team_response,
                   printed, variant, turn, session>>

\* A variant of route that catches the exception of fact_checker.check and
\* goes on to the team.
MainCheckRaises_caught ==
    /\ variant = "main"
    /\ pc = "check"
    /\ calls' = Append(calls, Call("check", query))
    /\ check_result' = Raised("web_agent.run")
    /\ response' = response
    /\ pc' = "run_agents"
    /\ UNCHANGED <<query, category, search_results, validation_result,
                   team_response, printed, variant, turn, session>>

\* route: the research call inside fact_checker.check raises; nothing
\* catches it, in route or in the loop.
MainCheckRaises ==
    /\ variant = "main"
    /\ pc = "check"
    /\ calls' = Append(calls, Call("check", query))
    /\ check_result' = Raised("web_agent.run")
    /\ response' = Raised("web_agent.run")
    /\ pc' = "crashed"
    /\ UNCHANGED <<query, category, search_results, validation_result,
                   team_response, printed, variant, turn, session>>

\* run_agents: response = self.team.run(query) returns and is unwrapped.
MainRunAgentsReturns ==
    /\ variant = "main"
    /\ pc = "run_agents"
    /\ \E r \in TeamResponses :
          /\ team_response' = r
          /\ response' = Returned(run_agents(r))
    /\ calls' = Append(calls, Call("team.run", query))
    /\ pc' = "print"
    /\ UNCHANGED <<query, category, search_results, check_result,
                   validation_result, printed, variant, turn, session>>

\* run_agents: self.team.run(query) raises; nothing catches it.
MainRunAgentsRaises ==
    /\ variant = "main"
    /\ pc = "run_agents"
    /\ calls' = Append(calls, Call("team.run", query))
    /\ team_response' = Raised("team.run")
    /\ response' = Raised("team.run")
    /\ pc' = "crashed"
    /\ UNCHANGED <<query, category, search_results, check_result,
                   validation_result, printed, variant, turn, session>>

\* print(f"\n Response:\n{response}\n"), and back to input().
MainPrint ==
    /\ variant = "main"
    /\ pc = "print"
    /\ printed' = Append(printed, response.value)
    /\ pc' = "input"
    /\ TurnOver
    /\ UNCHANGED <<query, validation_result, variant, turn, session>>

NextMain ==
    \/ MainStartup
    \/ MainReadLine
    \/ MainClassify
    \/ MainCheckReturns
    \/ MainCheckRaises
    \/ MainRunAgentsReturns
    \/ MainRunAgentsRaises
    \/ MainPrint

SpecMain == InitMain /\ [][NextMain]_vars

\* The route call of the current turn has ended, by a return or a raise.
RouteEnded == pc \in {"print", "crashed"}

Checked == check_result.kind = "value"

\* C1: for a query classified fact_check, the team is never run when the
\* status is false or uncertain and route returns the clarifying message of
\* that status; with any other status the team is run once, with the query.
C1_FactCheckGate ==
    (category = "fact_check" /\ Checked) =>
        IF check_result.status \in {"false", "uncertain"}
        THEN /\ ArgsOf("team.run") = <<>>
             /\ pc # "run_agents"
             /\ team_response = NoValue
             /\ RouteEnded =>
                  response =
                    Returned(IF check_result.status = "false"
                             THEN FalseMessage(check_result.reason)
                             ELSE UncertainMessage(check_result.reason))
        ELSE /\ pc = "run_agents" => ArgsOf("team.run") = <<>>
             /\ pc # "run_agents" =>
                  ArgsOf("team.run") = <<Call("team.run", query)>>

\* A fact_check query with an uncertain status has got its message, and
\* no team run.
C1_Witness ==
    /\ pc = "print"
    /\ category = "fact_check"
    /\ Checked
    /\ check_result.status = "uncertain"
    /\ response = Returned(UncertainMessage("Conflicting or insufficient evidence."))
    /\ ArgsOf("team.run") = <<>>

\* C2: for a query classified finance_only, route runs the team exactly
\* once, with the query as typed, and never calls FactChecker.check.
C2_FinanceOnlyDirect ==
    category = "finance_only" =>
        /\ ArgsOf("check") = <<>>
        /\ check_result = NoValue
        /\ search_results = NoValue
        /\ pc = "run_agents" => calls = <<Call("classify", query)>>
        /\ pc # "run_agents" =>
             calls = <<Call("classify", query), Call("team.run", query)>>

\* A finance_only query typed in upper case has been answered by the team.
C2_Witness ==
    /\ pc = "print"
    /\ category = "finance_only"
    /\ query # lower(query)
    /\ calls = <<Call("classify", query), Call("team.run", query)>>
    /\ response.kind = "returned"

\* C3: for a query classified mixed, the team is run if and only if the
\* status is verified; with any other status route returns a clarifying
\* message and the team is not run.
C3_MixedGate ==
    (category = "mixed" /\ Checked) =>
        /\ (ArgsOf("team.run") # <<>> \/ pc = "run_agents")
              <=> check_result.status = "verified"
        /\ Len(ArgsOf("team.run")) <= 1
        /\ (check_result.status # "verified" /\ RouteEnded) =>
              /\ response \in { Returned(FalseMessage(check_result.reason)),
                                Returned(UncertainMessage(check_result.reason)) }
              /\ team_response = NoValue

\* A mixed query with a false status has got the clarifying message, and no
\* team run.
C3_Witness ==
    /\ pc = "print"
    /\ category = "mixed"
    /\ Checked
    /\ check_result.status = "false"
    /\ response = Returned(FalseMessage("No evidence found in recent reports."))
    /\ ArgsOf("team.run") = <<>>

(***************************************************************************)
(* safe_parse_json, ValidationRouter and the CLI loop of                   *)
(* validated_finance_team (src/multi_agent_team_market_finance_news.py,    *)
(* src/milti_agent_team_market_finance_news.py)                            *)
(***************************************************************************)
\* A value json.loads can return.  A dict holds some of the keys status,
\* summary and sources (the field of an absent key holds the default that
\* .get gives for it); the other values have no .get.
JsonDict(keys, status, summary, sources) ==
    [type |-> "dict", keys |-> keys, status |-> status, summary |-> summary,
     sources |-> sources]
JsonOther(type) ==
    [type |-> type, keys |-> {}, status |-> "uncertain", summary |-> "",
     sources |-> <<>>]
EmptyDict == JsonDict({}, "uncertain", "", <<>>)

Statuses == {"confirmed", "misinformation", "uncertain", "partially_confirmed"}

JsonDicts ==
    { JsonDict(keys,
               IF "status" \in keys THEN st ELSE "uncertain",
               IF "summary" \in keys THEN sm ELSE "",
               IF "sources" \in keys THEN so ELSE <<>>) :
        keys \in SUBSET {"status", "summary", "sources"},
        st \in Statuses, sm \in {"", "S"}, so \in {<<>>, <<"u">>} }

JsonValues ==
    JsonDicts \cup { JsonOther(t) : t \in {"list", "str", "int", "NoneType"} }

\* A text, as json.loads sees it: the text of a JSON value, or anything else.
JsonText(v) == [type |-> "str", json |-> TRUE, value |-> v]
NotJson     == [type |-> "str", json |-> FALSE, value |-> EmptyDict]
NoneContent == [type |-> "NoneType", json |-> FALSE, value |-> EmptyDict]

\* What validator.run can return: a run response with a content attribute
\* (a text or None), or a plain text.
ValidatorResults ==
    { [kind |-> "value", shape |-> "attr", content |-> c] :
        c \in { JsonText(v) : v \in JsonValues } \cup {NotJson, NoneContent} }
    \cup
    { [kind |-> "value", shape |-> "str", content |-> c] :
        c \in { JsonText(v) : v \in JsonValues } \cup {NotJson} }

\* json.loads(text)
json_loads(text) ==
    IF text.type = "str" /\ text.json THEN Returned(text.value)
    ELSE IF text.type = "str" THEN Raised("JSONDecodeError")
    ELSE Raised("TypeError")

\* safe_parse_json(text)
safe_parse_json(text) ==
    LET parsed == json_loads(text)
    IN  IF parsed.kind = "returned" THEN parsed.value ELSE EmptyDict

\* d.get(key, default): the fields of a JsonDict hold the defaults of route.
get(d, key) == d[key]

\* getattr(validation_result, "content", str(validation_result)): the text of
\* a plain text is the text itself.
content_of(v) == v.content

\* The two f-strings sent to the validator.
ValidatorPrompt(v, q) ==
    [template |-> IF v = "multi" THEN "fact-check in JSON" ELSE "fact-check",
     query |-> q]

StructuredPrompt(q, status, summary, sources) ==
    [template |-> "structured", query |-> q, status |-> status,
     summary |-> summary, sources |-> sources, validation |-> NoValue]

RawPrompt(q, validation) ==
    [template |-> "raw", query |-> q, status |-> "", summary |-> "",
     sources |-> <<>>, validation |-> validation]

\* A variant of enhanced_prompt that leaves the validator's status out.
enhanced_prompt_no_status(v, q, result) ==
    IF v = "multi"
    THEN LET val_json == safe_parse_json(content_of(result))
         IN  IF val_json.type # "dict" THEN Raised("AttributeError")
             ELSE Returned(StructuredPrompt(q, "uncertain",
                                            get(val_json, "summary"),
                                            get(val_json, "sources")))
    ELSE Returned(RawPrompt(q, result))

\* ValidationRouter.route from the validator's return to the team's call:
\* the enhanced prompt, or the exception of .get on a value that is no dict.
enhanced_prompt(v, q, result) ==
    IF v = "multi"
    THEN LET val_json == safe_parse_json(content_of(result))
         IN  IF val_json.type # "dict" THEN Raised("AttributeError")
             ELSE Returned(StructuredPrompt(q, get(val_json, "status"),
                                            get(val_json, "summary"),
                                            get(val_json, "sources")))
    ELSE Returned(RawPrompt(q, result))

\* ValidationRouter.route from the team's return on: present_response in
\* one file, the team's response as it is in the other.
route_result(v, r) ==
    IF v = "multi" THEN present_response(r) ELSE Returned(r)

\* The tokens that end the loop of validated_finance_team.
ExitWordsValidated ==
    { <<"e","x","i","t">>, <<"q","u","i","t">>, <<"b","y","e">> }

InitValidated ==
    /\ variant \in {"multi", "milti"}
    /\ pc = "startup"
    /\ query = <<>>
    /\ category = "none"
    /\ Untouched
    /\ session \in StartupInputs

\* validated_finance_team, up to the loop.
ValidatedStartup == variant \in {"multi", "milti"} /\ Startup

\* user_query = input(...): an exit token leaves the loop, a blank line goes
\* back to input(), every other line is routed.
ValidatedReadLine ==
    /\ variant \in {"multi", "milti"}
    /\ pc = "input"
    /\ \E line \in Lines :
          /\ query' = line
          /\ IF lower(line) \in ExitWordsValidated
             THEN pc' = "exited"
                  /\ printed' = <<"Thanks for using Validated Finance Team!">>
             ELSE IF strip(line) = <<>>
             THEN pc' = "input" /\ printed' = <<>>
             ELSE pc' = "validate" /\ printed' = <<"Processing">>
    /\ validation_result' = NoValue
    /\ TurnOver
    /\ CountTurn
    /\ UNCHANGED <<variant, session>>

\* route: validation_result = self.validator.run(...) returns, and the
\* enhanced prompt is built.
ValidatorReturns ==
    /\ variant \in {"multi", "milti"}
    /\ pc = "validate"
    /\ \E v \in ValidatorResults :
          /\ validation_result' = v
          /\ LET prompt == enhanced_prompt(variant, query, v)
             IN  IF prompt.kind = "raised"
                 THEN response' = prompt /\ pc' = "except"
                 ELSE response' = response /\ pc' = "team"
    /\ calls' = Append(calls, Call("validator.run", ValidatorPrompt(variant, query)))
    /\ printed' = printed \o <<"Validating news claims...",
                               "Validation complete. Proceeding with analysis...">>
    /\ UNCHANGED <<query, category, search_results, check_result,
                   team_response, variant, turn, session>>

\* route: self.validator.run(...) raises.
ValidatorRaises ==
    /\ variant \in {"multi", "milti"}
    /\ pc = "validate"
    /\ validation_result' = Raised("validator.run")
    /\ response' = Raised("validator.run")
    /\ calls' = Append(calls, Call("validator.run", ValidatorPrompt(variant, query)))
    /\ printed' = Append(printed, "Validating news claims...")
    /\ pc' = "except"
    /\ UNCHANGED <<query, category, search_results, check_result,
                   team_response, variant, turn, session>>

\* route: self.team.run(enhanced_prompt) returns, and route returns.
ValidatedTeamReturns ==
    /\ variant \in {"multi", "milti"}
    /\ pc = "team"
    /\ \E r \in TeamResponses :
          /\ team_response' = r
          /\ response' = route_result(variant, r)
    /\ calls' = Append(calls,
          Call("team.run", enhanced_prompt(variant, query, validation_result).value))
    /\ pc' = IF response'.kind = "raised" THEN "except" ELSE "print"
    /\ UNCHANGED <<query, category, search_results, check_result,
                   validation_result, printed, variant, turn, session>>

\* route: self.team.run(enhanced_prompt) raises.
ValidatedTeamRaises ==
    /\ variant \in {"multi", "milti"}
    /\ pc = "team"
    /\ team_response' = Raised("team.run")
    /\ response' = Raised("team.run")
    /\ calls' = Append(calls,
          Call("team.run", enhanced_prompt(variant, query, validation_result).value))
    /\ pc' = "except"
    /\ UNCHANGED <<query, category, search_results, check_result,
                   validation_result, printed, variant, turn, session>>

\* print(f"... Complete Analysis: {response}"), the rule, and back to input().
ValidatedPrint ==
    /\ variant \in {"multi", "milti"}
    /\ pc = "print"
    /\ printed' = printed \o <<"Complete Analysis", "----">>
    /\ pc' = "input"
    /\ validation_result' = NoValue
    /\ TurnOver
    /\ UNCHANGED <<query, variant, turn, session>>

\* A variant of the loop whose except clause leaves the loop.
ValidatedExcept_exits ==
    /\ variant \in {"multi", "milti"}
    /\ pc = "except"
    /\ printed' = printed \o <<"Error", "Please try again with a different query.">>
    /\ pc' = "exited"
    /\ validation_result' = NoValue
    /\ TurnOver
    /\ UNCHANGED <<query, variant, turn, session>>

\* except Exception as e: the error and the hint are printed, and back to
\* input().
ValidatedExcept ==
    /\ variant \in {"multi", "milti"}
    /\ pc = "except"
    /\ printed' = printed \o <<"Error", "Please try again with a different query.">>
    /\ pc' = "input"
    /\ validation_result' = NoValue
    /\ TurnOver
    /\ UNCHANGED <<query, variant, turn, session>>

NextValidated ==
    \/ ValidatedStartup
    \/ ValidatedReadLine
    \/ ValidatorReturns
    \/ ValidatorRaises
    \/ ValidatedTeamReturns
    \/ ValidatedTeamRaises
    \/ ValidatedPrint
    \/ ValidatedExcept

SpecValidated == InitValidated /\ [][NextValidated]_vars

\* The validator has answered with a text that carries a status record: a
\* JSON object, or (one file parses nothing, the other falls back to the
\* empty record) any text that is no JSON value other than an object.
Validated ==
    /\ validation_result.kind = "value"
    /\ (variant = "multi" /\ validation_result.content.json)
          => validation_result.content.value.type = "dict"

\* C10: in ValidationRouter.route, whatever the validator's status, the
\* validator is called once and first, then the team is called once with a
\* prompt that embeds the query and the validator's status, summary and
\* sources (in one file, the validator's whole answer); route never returns
\* without having called the team.
C10_ValidateThenTeam ==
    LET first == Call("validator.run", ValidatorPrompt(variant, query))
        text  == validation_result.content
        both  == /\ Len(calls) = 2
                 /\ calls[1] = first
                 /\ calls[2].fn = "team.run"
                 /\ calls[2].arg.query = query
                 /\ IF variant = "multi"
                    THEN /\ calls[2].arg.template = "structured"
                         /\ (text.json /\ "status" \in text.value.keys)
                               => calls[2].arg.status = text.value.status
                         /\ (text.json /\ "summary" \in text.value.keys)
                               => calls[2].arg.summary = text.value.summary
                         /\ (text.json /\ "sources" \in text.value.keys)
                               => calls[2].arg.sources = text.value.sources
                    ELSE /\ calls[2].arg.template = "raw"
                         /\ calls[2].arg.validation = validation_result
    IN  /\ pc = "validate" => calls = <<>>
        /\ pc = "team" => (calls = <<first>> /\ Validated)
        /\ pc = "print" => (both /\ Validated /\ response.kind = "returned")
        /\ (pc = "except" /\ Validated) => both
        /\ calls # <<>> => (calls[1] = first /\ (Len(calls) > 1 => both))

\* A query whose validator answered misinformation has been sent to the team
\* with that status in the prompt, and route has returned.
C10_Witness ==
    /\ pc = "print"
    /\ variant = "multi"
    /\ validation_result.content.json
    /\ validation_result.content.value.keys = {"status", "summary", "sources"}
    /\ validation_result.content.value.status = "misinformation"
    /\ Len(calls) = 2
    /\ calls[2].arg.status = "misinformation"
    /\ calls[2].arg.sources = <<"u">>

(***************************************************************************)
(* The three CLI programs side by side                                     *)
(***************************************************************************)
InitCLI == InitMain \/ InitValidated

NextCLI == NextMain \/ NextValidated

SpecCLI == InitCLI /\ [][NextCLI]_vars

\* C11: in the file that parses the validator's answer, whenever the answer
\* is not parseable as JSON, or is JSON but no object, route goes on with the
\* empty record (status uncertain, empty summary, no sources): it calls the
\* team with that record in the prompt and raises nothing before that call.
C11_RecoversLocally ==
    LET text   == validation_result.content
        record == StructuredPrompt(query, "uncertain", "", <<>>)
    IN  (/\ variant = "multi"
         /\ validation_result.kind = "value"
         /\ ~(text.json /\ text.value.type = "dict"))
        => /\ pc = "team" \/ Len(calls) = 2
           /\ Len(calls) = 2 => calls[2] = Call("team.run", record)

\* C12 as stated: in every loop, exit, quit and bye in any casing end the
\* loop, and nothing is called for that line.
C12_ExitQuitByeEverywhere ==
    LET tokens == { <<"e","x","i","t">>, <<"q","u","i","t">>, <<"b","y","e">> }
    IN  lower(query) \in tokens => (pc = "exited" /\ calls = <<>>)

\* C12: exit and quit in any casing end every loop, and bye in any casing
\* ends the loops of validated_finance_team; the classifier, the fact
\* check, the validator and the team are not called for that line, and the
\* loop ends on no other line.
C12_ExitTokens ==
    LET tokens == IF variant = "main"
                  THEN { <<"e","x","i","t">>, <<"q","u","i","t">> }
                  ELSE { <<"e","x","i","t">>, <<"q","u","i","t">>, <<"b","y","e">> }
    IN  /\ lower(query) \in tokens =>
              /\ pc = "exited"
              /\ calls = <<>>
              /\ category = "none"
              /\ check_result = NoValue
              /\ validation_result = NoValue
              /\ team_response = NoValue
        /\ pc = "exited" => lower(query) \in tokens

\* The line BYE has ended a loop of validated_finance_team, and Quit the
\* loop of finance_team.
C12_Witness ==
    /\ pc = "exited"
    /\ calls = <<>>
    /\ \/ variant = "multi" /\ query = <<"B","Y","E">>
       \/ variant = "main" /\ query = <<"Q","u","i","t">>

\* C13: in every loop, after an empty or whitespace-only line nothing is
\* called and nothing is printed, and the loop is back at its prompt.
C13_BlankLineSkipped ==
    (turn # "none" /\ strip(query) = <<>>)
        => (pc = "input" /\ calls = <<>> /\ printed = <<>>)

\* C14: in the loops of validated_finance_team, an exception of route takes
\* the loop to its except clause, which prints the error and the hint and
\* goes back to the prompt with the same query and no further call; the
\* validator is called only for a line just read; the loop ends only at the
\* prompt, on exit, quit or bye.
C14_CatchLogContinue ==
    [][/\ pc' = "except" => (pc \in {"validate", "team"} /\ response'.kind = "raised")
       /\ pc = "except" =>
             /\ pc' = "input"
             /\ printed' = printed \o <<"Error", "Please try again with a different query.">>
             /\ calls' = <<>>
             /\ query' = query
       /\ pc' = "validate" => pc = "input"
       /\ pc' = "exited" =>
             /\ pc = "input"
             /\ lower(query') \in { <<"e","x","i","t">>, <<"q","u","i","t">>,
                                     <<"b","y","e">> }]_vars

\* A later query of the session has failed, its error has been printed, and
\* the loop is at its prompt again.
C14_Witness ==
    /\ pc = "input"
    /\ turn = "later"
    /\ Len(printed) > 1
    /\ printed[Len(printed) - 1] = "Error"
    /\ calls = <<>>

\* C15: in the simple router, a query classified mixed or fact_check gets
\* exactly one FactChecker.check call, which has returned before the team is
\* run; the team is never run before or without it, and no route call runs
\* the team more than once.
C15_CheckOnceBeforeTeam ==
    LET classified == Call("classify", query)
        checked    == Call("check", query)
        team       == Call("team.run", query)
    IN  /\ Len(ArgsOf("team.run")) <= 1
        /\ category \in {"mixed", "fact_check"} =>
              /\ Len(ArgsOf("check")) <= 1
              /\ pc = "check" => calls = <<classified>>
              /\ pc = "run_agents" => (calls = <<classified, checked>> /\ Checked)
              /\ ArgsOf("team.run") # <<>> =>
                    (calls = <<classified, checked, team>> /\ Checked)
              /\ RouteEnded => ArgsOf("check") = <<checked>>

\* A mixed query has been checked, found verified, and answered by the team.
C15_Witness ==
    /\ pc = "print"
    /\ category = "mixed"
    /\ check_result.kind = "value"
    /\ check_result.status = "verified"
    /\ calls = <<Call("classify", query), Call("check", query),
                 Call("team.run", query)>>

\* C16: an exception of the research call of FactChecker.check or of
\* team.run leaves route as it is: route returns nothing, nothing is printed
\* for the query, and after a failed fact check the team is not run.
C16_FailuresPropagate ==
    /\ check_result.kind = "raised" =>
          /\ pc = "crashed"
          /\ response = Raised("web_agent.run")
          /\ ArgsOf("team.run") = <<>>
          /\ team_response = NoValue
    /\ team_response.kind = "raised" =>
          /\ pc = "crashed"
          /\ response = Raised("team.run")
    /\ pc = "crashed" =>
          /\ response.kind = "raised"
          /\ printed = <<>>
          /\ check_result.kind = "raised" \/ team_response.kind = "raised"

\* The fact check of a query has raised, and the team was not run.
C16_Witness ==
    /\ pc = "crashed"
    /\ check_result.kind = "raised"
    /\ calls = <<Call("classify", query), Call("check", query)>>

\* C17: for every shape of the team's response, run_agents and
\* present_response unwrap the same text, both give a str, and
\* present_response does not raise.
C17_SameUnwrapping ==
    (pc = "print" /\ team_response.kind = "value") =>
        /\ response.value.type = "str"
        /\ present_response(team_response).kind = "returned"
        /\ extract_text(team_response) = response.value

\* C18: the router keeps nothing between turns.  When a line has been read
\* nothing of an earlier turn is left; the category is the classification
\* of the current query; every query that is not finance_only gets its own
\* fact check; what route returns is determined by the query and the
\* outputs of the calls of this turn.
C18_NoStateBetweenTurns ==
    /\ pc \in {"input", "route"} =>
          /\ category = "none"
          /\ search_results = NoValue
          /\ check_result = NoValue
          /\ team_response = NoValue
          /\ response = NoValue
          /\ calls = <<>>
    /\ category # "none" => category = classify(query)
    /\ (RouteEnded /\ category # "finance_only") =>
          ArgsOf("check") = <<Call("check", query)>>
    /\ pc = "print" =>
          LET cat  == classify(query)
              team == Returned(run_agents(team_response))
              next == after_check(cat, check(search_results))
          IN  response = IF cat = "finance_only" THEN team
                         ELSE IF next.kind = "returned" THEN next
                         ELSE team

\* A later query of the session, not finance_only, has got its own fact
\* check.
C18_Witness ==
    /\ turn = "later"
    /\ pc = "print"
    /\ category = "fact_check"
    /\ ArgsOf("check") = <<Call("check", query)>>

InitClassify ==
    /\ variant = "classify"
    /\ pc = "call"
    /\ query \in Queries
    /\ category = "none"
    /\ Untouched
    /\ session = NoValue

\* One call of QueryClassifier.classify(query).
Classify ==
    /\ variant = "classify"
    /\ pc = "call"
    /\ category' = classify(query)
    /\ pc' = "returned"
    /\ UNCHANGED <<query, search_results, check_result, validation_result,
                   team_response, calls, response, printed, variant, turn, session>>

NextClassify == Classify

SpecClassify == InitClassify /\ [][NextClassify]_vars

InitCheck ==
    /\ variant = "check"
    /\ pc = "call"
    /\ query \in Texts(QueryWords, 1)
    /\ category = "none"
    /\ Untouched
    /\ session = NoValue

\* One call of FactChecker.check(query): web_agent.run returns and the text
\* is inspected.
CheckReturns ==
    /\ variant = "check"
    /\ pc = "call"
    /\ \E out \in ResearchOutputs(MaxOutputWords) :
          /\ search_results' = out
          /\ check_result' = check(out)
    /\ calls' = Append(calls, [fn |-> "web_agent.run", arg |-> query])
    /\ pc' = "returned"
    /\ UNCHANGED <<query, category, validation_result, team_response,
                   response, printed, variant, turn, session>>

\* One call of FactChecker.check(query): web_agent.run raises, and check
\* does not catch it.
CheckRaises ==
    /\ variant = "check"
    /\ pc = "call"
    /\ calls' = Append(calls, [fn |-> "web_agent.run", arg |-> query])
    /\ check_result' = Raised("web_agent.run")
    /\ pc' = "raised"
    /\ UNCHANGED <<query, category, search_results, validation_result,
                   team_response, response, printed, variant, turn, session>>

NextCheck == CheckReturns \/ CheckRaises

SpecCheck == InitCheck /\ [][NextCheck]_vars

\* C7 as stated: the status is decided by the output text alone, false when
\* the text contains "no results", else uncertain when it contains
\* "uncertain", "rumor" or "unverified", else verified.
C7_StatusByTextAlone ==
    pc = "returned" =>
        LET text == lower(search_results.str)
        IN  check_result.status =
              IF Contains(text, NoResults) THEN "false"
              ELSE IF Contains(text, Uncertain) \/ Contains(text, Rumor)
                        \/ Contains(text, Unverified) THEN "uncertain"
              ELSE "verified"

\* C7, amended: the status is false when the output is falsy (empty) or its
\* lower-cased text contains "no results"; else uncertain when the
\* lower-cased text contains "uncertain", "rumor" or "unverified"; else
\* verified.
C7_StatusByOutput ==
    pc = "returned" =>
        LET text == lower(search_results.str)
        IN  check_result.status =
              IF ~search_results.truthy \/ Contains(text, NoResults)
              THEN "false"
              ELSE IF Contains(text, Uncertain) \/ Contains(text, Rumor)
                        \/ Contains(text, Unverified) THEN "uncertain"
              ELSE "verified"

\* check has returned false for an output holding both "no results" (in
\* another casing) and one of the uncertain words.
C7_Witness ==
    /\ pc = "returned"
    /\ search_results.truthy
    /\ Contains(lower(search_results.str), NoResults)
    /\ ~Contains(search_results.str, NoResults)
    /\ Contains(lower(search_results.str), Rumor)
    /\ check_result.status = "false"

\* C4: classify returns fact_check for every query whose lower-cased text
\* contains a geopolitical keyword, whatever its casing and also when it
\* contains a ticker keyword as well.
C4_GeoIsFactCheck ==
    (pc = "returned" /\ ContainsAny(lower(query), GeoKeywords))
        => category = "fact_check"

\* A query in mixed casing holding both a geopolitical and a ticker keyword
\* has been classified.
C4_Witness ==
    /\ pc = "returned"
    /\ ContainsAny(lower(query), GeoKeywords)
    /\ ~ContainsAny(query, GeoKeywords)
    /\ ContainsAny(lower(query), TickerKeywords)
    /\ category = "fact_check"

\* C5: classify returns finance_only for every query whose lower-cased text
\* contains a ticker keyword and no geopolitical keyword.
C5_TickerIsFinanceOnly ==
    (pc = "returned"
        /\ ContainsAny(lower(query), TickerKeywords)
        /\ ~ContainsAny(lower(query), GeoKeywords))
        => category = "finance_only"

\* A query whose ticker keyword shows only after lower-casing, and that has
\* no geopolitical keyword, has been classified.
C5_Witness ==
    /\ pc = "returned"
    /\ ContainsAny(lower(query), TickerKeywords)
    /\ ~ContainsAny(query, TickerKeywords)
    /\ ~ContainsAny(lower(query), GeoKeywords)
    /\ category = "finance_only"

\* C6: classify always returns one of the three categories, and returns mixed
\* exactly when the lower-cased query contains neither a geopolitical nor a
\* ticker keyword (the empty query included).
C6_TotalAndMixed ==
    pc = "returned" =>
        /\ category \in Categories
        /\ (category = "mixed") <=>
              (/\ ~ContainsAny(lower(query), GeoKeywords)
               /\ ~ContainsAny(lower(query), TickerKeywords))

\* The empty query has been classified, as mixed.
C6_Witness ==
    /\ pc = "returned"
    /\ query = <<>>
    /\ category = "mixed"
====
